---- MODULE Spec2Model ----
(***************************************************************************)
(* State-machine model of the live-select engine of lib/LiveMysql.js:      *)
(* the cache registry, the subscription list, the schema interest-set,     *)
(* the binlog ingress, pause/resume/end and the readiness poll.            *)
(* QueryCache, LiveMysqlSelect and LiveMysqlKeySelector are required by    *)
(* LiveMysql.js but their files are not part of the source tree at hand;   *)
(* the operators that stand for them follow the design document.           *)
(***************************************************************************)
EXTENDS Integers, Sequences, FiniteSets, TLC

\* ------------------------------------------------------------- bounds
\* select() calls that return a subscription (subscription ids 1..MaxSubs)
MaxSubs == 2
\* row events the backend emits over a run
MaxEvents == 2
\* calls of end() over a run
MaxEnds == 2
\* rows of a result set
MaxRows == 3
\* notifications a re-evaluation drains at once
MaxBatch == 2

\* ------------------------------------------------- program constants
\* lib/LiveMysql.js:10
ZONGJI_INIT_TIMEOUT == 6000
\* lib/LiveMysql.js:124, setTimeout(zongjiReady, 40)
ZONGJI_POLL_DELAY == 40

\* ------------------------------------------------------ JS values
\* A JavaScript value: its kind, and a string or a number payload.
JsVal(kind, s, n) == [kind |-> kind, s |-> s, n |-> n]
Undefined == JsVal("undefined", "", 0)
Null == JsVal("null", "", 0)
Str(s) == JsVal("string", s, 0)
Num(n) == JsVal("number", "", n)
Obj(s) == JsVal("object", s, 0)
Fn(s) == JsVal("function", s, 0)

\* typeof x
TypeOf(x) == IF x.kind = "null" THEN "object" ELSE x.kind

\* x is falsy: the left operand of || is skipped
Falsy(x) ==
    \/ x.kind \in {"undefined", "null"}
    \/ x.kind = "string" /\ x.s = ""
    \/ x.kind = "number" /\ x.n = 0

\* a trigger { database?, table }
Trigger(db, table) == [database |-> db, table |-> table]

\* the triggers argument: an Array of triggers, or something that is no Array
TriggerList(items) == [isArray |-> TRUE, items |-> items]
NotAnArray == [isArray |-> FALSE, items |-> <<>>]

\* ------------------------------------------------- inputs of select()
QueryInputs == {Str("q1"), Num(7)}
ValuesInputs == {Undefined, Null, Obj("v1"), Str("bad")}
KeySelectorInputs == {Fn("ks1"), Fn("ks1b"), Obj("notfn")}
TriggersInputs ==
    { NotAnArray,
      TriggerList(<<>>),
      TriggerList(<<Trigger(Str("db1"), "t1")>>),
      TriggerList(<<Trigger(Str("db1"), "t1"), Trigger(Undefined, "t2")>>) }
MinIntervalInputs == {Undefined, Num(100), Str("10")}

SelectArgs(query, values, keySelector, triggers, minInterval) ==
    [ query |-> query, values |-> values, keySelector |-> keySelector,
      triggers |-> triggers, minInterval |-> minInterval ]

\* a well-formed call, and the calls that differ from it in one argument
BaseCall ==
    SelectArgs(Str("q1"), Undefined, Fn("ks1"),
               TriggerList(<<Trigger(Str("db1"), "t1")>>), Num(100))
SelectInputs ==
    { [BaseCall EXCEPT !.query = x] : x \in QueryInputs }
    \cup { [BaseCall EXCEPT !.values = x] : x \in ValuesInputs }
    \cup { [BaseCall EXCEPT !.keySelector = x] : x \in KeySelectorInputs }
    \cup { [BaseCall EXCEPT !.triggers = x] : x \in TriggersInputs }
    \cup { [BaseCall EXCEPT !.minInterval = x] : x \in MinIntervalInputs }

\* the calls that probe the argument checks: the calls above, an empty
\* query, and other numbers for minInterval
ValidationInputs ==
    SelectInputs
    \cup { [BaseCall EXCEPT !.query = Str("")] }
    \cup { [BaseCall EXCEPT !.minInterval = x] : x \in {Num(-1), Num(50)} }

\* the call of the re-evaluation scenarios: one identity with a rate limit
EvalInputs == { BaseCall }

\* the settings of the engine: no default database, or db1 as the default
SettingsInputs ==
    { [database |-> Undefined, checkConditionWhenQueued |-> FALSE],
      [database |-> Str("db1"), checkConditionWhenQueued |-> TRUE] }

\* binlog events: the decoder's event names and the tables of the server
Databases == {"db1"}
Tables == {"t1", "t2"}
RowEvent(name, db, table) == [name |-> name, schemaName |-> db, tableName |-> table]
RowEvents ==
    { RowEvent("tablemap", "db1", "t1") }
    \cup { RowEvent("writerows", d, t) : d \in Databases, t \in Tables }

SubIds == 1..MaxSubs
CacheIds == 1..MaxSubs

VARIABLES
    settings,        \* self.settings: database, checkConditionWhenQueued
    connected,       \* initialConnect's callback: "pending", "ok", "error"
    zongji,          \* self.zongji: "null" or "created"
    zongjiReady,     \* zongji.ready
    zongjiStops,     \* calls of zongji.stop()
    dbEnds,          \* calls of self.endDbOrPool()
    endCalls,        \* calls of end()
    pollArmed,       \* a setTimeout(zongjiReady, 40) is pending
    pollElapsed,     \* Date.now() - zongjiInitTime at the latest poll
    emitted,         \* events the engine emitted: ready, timeout, connect error
    includeSchema,   \* zongjiSettings.includeSchema: "schemaCache" or "empty"
    _schemaCache,    \* self._schemaCache: database -> list of tables
    _select,         \* self._select
    _queryCache,     \* self._queryCache: queryCacheKey -> cache id
    caches,          \* the QueryCache objects ever created
    subs,            \* the LiveMysqlSelect objects ever created
    pendingInitial,  \* subscriptions waiting for their initial delivery
    inflight,        \* binlog events the backend produced, not yet handled
    evCount,         \* events the backend produced so far
    lastCall,        \* the latest operation and what it did
    parsedQuery,     \* the parsed query of the cache of row payloads
    resultSet,       \* that cache's result set
    pgCache,         \* that cache's rate-limit state
    lastEval         \* that cache's latest re-evaluation

vars == << settings, connected, zongji, zongjiReady, zongjiStops, dbEnds,
           endCalls, pollArmed, pollElapsed, emitted, includeSchema,
           _schemaCache, _select, _queryCache, caches, subs, pendingInitial,
           inflight, evCount, lastCall, parsedQuery, resultSet, pgCache,
           lastEval >>

engineVars == << includeSchema, _schemaCache, _select, _queryCache, caches,
                 subs, pendingInitial, inflight, evCount >>
initVars == << connected, zongji, zongjiReady, pollArmed, pollElapsed, emitted >>
endVars == << zongjiStops, dbEnds, endCalls >>
evalVars == << parsedQuery, resultSet, pgCache, lastEval >>

\* ------------------------------------------------------ helpers
Range(f) == { f[x] : x \in DOMAIN f }

\* Array.prototype.indexOf, 1-based; 0 stands for -1
IndexOf(seq, x) ==
    IF \E i \in 1..Len(seq) : seq[i] = x
    THEN CHOOSE i \in 1..Len(seq) : seq[i] = x /\ \A j \in 1..(i - 1) : seq[j] # x
    ELSE 0

\* Array.prototype.splice(index, 1), 1-based
Splice(seq, i) == SubSeq(seq, 1, i - 1) \o SubSeq(seq, i + 1, Len(seq))

\* what an operation reports: kept in lastCall
\*   id: the subscription or cache it was about; threw: it raised an error;
\*   ret: what it returned; targets: the caches it invalidated or the
\*   subscriptions it delivered to; result: how a re-evaluation ended;
\*   args: the arguments of a select()
NoArgs == SelectArgs(Undefined, Undefined, Undefined, NotAnArray, Undefined)
Call(op) ==
    [ op |-> op, id |-> 0, threw |-> FALSE, ret |-> FALSE, targets |-> {},
      result |-> "", args |-> NoArgs ]
\* a step of the backend or of a timer
Internal == Call("internal")

\* ------------------------------------------------ QueryCache (design 4.4)
\* now - lastUpdate >= minInterval, or no rate limit
Due(cache) ==
    \/ cache.minInterval.kind = "null"
    \/ cache.minInterval.n <= 0
    \/ cache.elapsed

\* update() begins: one more re-evaluation in flight; it covers the events seen so far
beginUpdate(cache) ==
    [cache EXCEPT !.running = @ + 1,
                  !.dirty = IF @ = "event" THEN "covered" ELSE @]

\* A mutant of invalidate: a RUNNING cache starts a second re-evaluation.
invalidate_concurrent(cache) ==
    IF cache.updateTimeout THEN cache
    ELSE IF Due(cache) THEN beginUpdate(cache)
    ELSE [cache EXCEPT !.updateTimeout = TRUE]

\* QueryCache.prototype.invalidate: the rate-limit state machine
\*   IDLE -> RUNNING when due, IDLE -> SCHEDULED otherwise,
\*   SCHEDULED -> SCHEDULED (coalesce), RUNNING -> RUNNING with deferred set
invalidate(cache) ==
    IF cache.running > 0 THEN [cache EXCEPT !.deferred = TRUE]
    ELSE IF cache.updateTimeout THEN cache
    ELSE IF Due(cache) THEN beginUpdate(cache)
    ELSE [cache EXCEPT !.updateTimeout = TRUE]

\* new QueryCache(query, values, queryCacheKey, keySelector, minInterval, base)
NewQueryCache(queryCacheKey, minInterval) ==
    [ queryCacheKey |-> queryCacheKey, minInterval |-> minInterval,
      selects |-> <<>>, updateTimeout |-> FALSE, running |-> 0,
      deferred |-> FALSE, elapsed |-> TRUE, dirty |-> "clean" ]

\* a trigger matches an event: same table, and same database when it names one
triggerMatches(trigger, event) ==
    /\ trigger.table = event.tableName
    /\ Falsy(trigger.database) \/ trigger.database.s = event.schemaName

\* QueryCache.prototype.matchRowEvent: some trigger of some subscriber matches
matchRowEvent(cache, event) ==
    \E i \in 1..Len(cache.selects) :
        \E j \in 1..Len(subs[cache.selects[i]].triggers) :
            triggerMatches(subs[cache.selects[i]].triggers[j], event)

\* LiveMysqlKeySelector.makeTag: the stable tag of a key selector function
makeTag(keySelector) ==
    IF keySelector.s \in {"ks1", "ks1b"} THEN "index" ELSE "columns:id"

\* ------------------------------------------------------ select()
\* EJSON.stringify({query, values, keySelector: tag}, {canonical: true}):
\* an undefined values field is left out of the serialization
queryCacheKey(query, values, keySelector) ==
    << query.s,
       IF values.kind = "undefined" THEN "" ELSE values.s,
       makeTag(keySelector) >>

\* lines 138-147: the argument checks, "" when they all pass
validateSelect(query, values, keySelector, triggers, minInterval) ==
    IF ~(TypeOf(query) = "string") THEN "query must be a string"
    ELSE IF ~(TypeOf(values) = "object" \/ values.kind = "undefined")
        THEN "values must be an object, null, or undefined"
    ELSE IF ~(keySelector.kind = "function") THEN "keySelector required"
    ELSE IF ~triggers.isArray \/ Len(triggers.items) = 0
        THEN "triggers array required"
    ELSE IF ~(TypeOf(minInterval) = "number" \/ minInterval.kind = "undefined")
        THEN "minInterval must be a number or undefined"
    ELSE ""

\* lines 150-161: the loop over the triggers from the i-th on; the schema it
\* leaves behind and whether it threw
RECURSIVE updateSchema(_, _, _)
updateSchema(schema, items, i) ==
    IF i > Len(items) THEN [schema |-> schema, threw |-> ""]
    ELSE LET triggerDatabase ==
                 IF Falsy(items[i].database) THEN settings.database
                 ELSE items[i].database
             db == triggerDatabase.s
         IN  IF triggerDatabase.kind = "undefined"
             THEN [schema |-> schema, threw |-> "no database selected on trigger"]
             ELSE IF db \notin DOMAIN schema
             THEN updateSchema(
                      [d \in DOMAIN schema \cup {db} |->
                          IF d = db THEN <<items[i].table>> ELSE schema[d]],
                      items, i + 1)
             ELSE IF IndexOf(schema[db], items[i].table) = 0
             THEN updateSchema(
                      [schema EXCEPT ![db] = Append(@, items[i].table)],
                      items, i + 1)
             ELSE updateSchema(schema, items, i + 1)

\* new LiveMysqlSelect(queryCache, triggers, base): attaches itself to the
\* cache; a cache that never ran is invalidated, otherwise the subscription
\* is handed the current result set on the next tick
NewSelect(cache, isNew, sub) ==
    LET attached == [cache EXCEPT !.selects = Append(@, sub)]
    IN  IF isNew THEN invalidate(attached) ELSE attached

\* A mutant of select: the registry is not consulted, every call makes a cache.
selectOutcome_alwaysNew(query, values, keySelector, triggers, minInterval) ==
    LET invalid == validateSelect(query, values, keySelector, triggers, minInterval)
        loop == updateSchema(_schemaCache, triggers.items, 1)
        vals == IF values.kind = "null" THEN Undefined ELSE values
        key == queryCacheKey(query, vals, keySelector)
        noSettings == minInterval.kind = "undefined"
        c == Len(caches) + 1
        sub == Len(subs) + 1
        cache == NewSelect(NewQueryCache(key, minInterval), TRUE, sub)
        same == [ threw |-> invalid, schema |-> _schemaCache,
                  registry |-> _queryCache, caches |-> caches, subs |-> subs,
                  selects |-> _select, pending |-> pendingInitial,
                  sub |-> 0, cache |-> 0 ]
    IN  IF invalid # "" THEN same
        ELSE IF loop.threw # ""
        THEN [same EXCEPT !.threw = loop.threw, !.schema = loop.schema]
        ELSE IF noSettings
        THEN [same EXCEPT !.threw = "TypeError", !.schema = loop.schema]
        ELSE [ threw |-> "", schema |-> loop.schema,
               registry |-> [k \in DOMAIN _queryCache \cup {key} |->
                                IF k = key THEN c ELSE _queryCache[k]],
               caches |-> Append(caches, cache),
               subs |-> Append(subs, [ queryCache |-> c, triggers |-> triggers.items,
                                       identity |-> key ]),
               selects |-> Append(_select, sub),
               pending |-> pendingInitial,
               sub |-> sub, cache |-> c ]

\* A mutant of select: a number passed to select() replaces the minInterval
\* of the cache the call binds to.
selectOutcome_promote(query, values, keySelector, triggers, minInterval) ==
    LET invalid == validateSelect(query, values, keySelector, triggers, minInterval)
        loop == updateSchema(_schemaCache, triggers.items, 1)
        vals == IF values.kind = "null" THEN Undefined ELSE values
        key == queryCacheKey(query, vals, keySelector)
        found == key \in DOMAIN _queryCache
        noSettings == ~found /\ minInterval.kind = "undefined"
        c == IF found THEN _queryCache[key] ELSE Len(caches) + 1
        sub == Len(subs) + 1
        promoted == IF found /\ minInterval.kind = "number"
                    THEN [caches[c] EXCEPT !.minInterval = minInterval]
                    ELSE caches[c]
        cache == IF found THEN NewSelect(promoted, FALSE, sub)
                 ELSE NewSelect(NewQueryCache(key, minInterval), TRUE, sub)
        same == [ threw |-> invalid, schema |-> _schemaCache,
                  registry |-> _queryCache, caches |-> caches, subs |-> subs,
                  selects |-> _select, pending |-> pendingInitial,
                  sub |-> 0, cache |-> 0 ]
    IN  IF invalid # "" THEN same
        ELSE IF loop.threw # ""
        THEN [same EXCEPT !.threw = loop.threw, !.schema = loop.schema]
        ELSE IF noSettings
        THEN [same EXCEPT !.threw = "TypeError", !.schema = loop.schema]
        ELSE [ threw |-> "", schema |-> loop.schema,
               registry |-> [k \in DOMAIN _queryCache \cup {key} |->
                                IF k = key THEN c ELSE _queryCache[k]],
               caches |-> IF found THEN [caches EXCEPT ![c] = cache]
                          ELSE Append(caches, cache),
               subs |-> Append(subs, [ queryCache |-> c, triggers |-> triggers.items,
                                       identity |-> key ]),
               selects |-> Append(_select, sub),
               pending |-> IF found THEN pendingInitial \cup {sub}
                           ELSE pendingInitial,
               sub |-> sub, cache |-> c ]

\* LiveMysql.prototype.select, lines 135-191: what the call leaves behind.
\* threw is "" when the call returns the subscription sub.
selectOutcome(query, values, keySelector, triggers, minInterval) ==
    LET invalid == validateSelect(query, values, keySelector, triggers, minInterval)
        loop == updateSchema(_schemaCache, triggers.items, 1)
        \* node-mysql seems to expect undefined rather than null
        vals == IF values.kind = "null" THEN Undefined ELSE values
        key == queryCacheKey(query, vals, keySelector)
        found == key \in DOMAIN _queryCache
        \* line 178 reads this.slaveSettings.minInterval; nothing ever sets
        \* slaveSettings, so the read throws a TypeError
        noSettings == ~found /\ minInterval.kind = "undefined"
        c == IF found THEN _queryCache[key] ELSE Len(caches) + 1
        sub == Len(subs) + 1
        cache == IF found THEN NewSelect(caches[c], FALSE, sub)
                 ELSE NewSelect(NewQueryCache(key, minInterval), TRUE, sub)
        same == [ threw |-> invalid, schema |-> _schemaCache,
                  registry |-> _queryCache, caches |-> caches, subs |-> subs,
                  selects |-> _select, pending |-> pendingInitial,
                  sub |-> 0, cache |-> 0 ]
    IN  IF invalid # "" THEN same
        ELSE IF loop.threw # ""
        THEN [same EXCEPT !.threw = loop.threw, !.schema = loop.schema]
        ELSE IF noSettings
        THEN [same EXCEPT !.threw = "TypeError", !.schema = loop.schema]
        ELSE [ threw |-> "", schema |-> loop.schema,
               registry |-> [k \in DOMAIN _queryCache \cup {key} |->
                                IF k = key THEN c ELSE _queryCache[k]],
               caches |-> IF found THEN [caches EXCEPT ![c] = cache]
                          ELSE Append(caches, cache),
               subs |-> Append(subs, [ queryCache |-> c, triggers |-> triggers.items,
                                       identity |-> key ]),
               selects |-> Append(_select, sub),
               pending |-> IF found THEN pendingInitial \cup {sub}
                           ELSE pendingInitial,
               sub |-> sub, cache |-> c ]

Select(query, values, keySelector, triggers, minInterval) ==
    LET out == selectOutcome(query, values, keySelector, triggers, minInterval)
    IN  /\ out.threw # "" \/ Len(subs) < MaxSubs
        /\ _schemaCache' = out.schema
        /\ _queryCache' = out.registry
        /\ caches' = out.caches
        /\ subs' = out.subs
        /\ _select' = out.selects
        /\ pendingInitial' = out.pending
        /\ lastCall' = [Call("select") EXCEPT
                            !.threw = out.threw # "",
                            !.id = out.sub,
                            !.args = SelectArgs(query, values, keySelector,
                                                triggers, minInterval)]
        /\ UNCHANGED << settings, includeSchema, inflight, evCount >>
        /\ UNCHANGED initVars
        /\ UNCHANGED endVars
    /\ UNCHANGED evalVars

\* ------------------------------------------------------ stop()
\* A mutant of _removeSelect: the subscription stays in its cache's list.
removeSelectOutcome_keepInCache(select) ==
    LET index == IndexOf(_select, select)
    IN  IF index # 0
        THEN [ ret |-> TRUE, selects |-> Splice(_select, index),
               caches |-> caches, registry |-> _queryCache ]
        ELSE [ ret |-> FALSE, selects |-> _select, caches |-> caches,
               registry |-> _queryCache ]

\* A mutant of _removeSelect: the cache is dropped although subscribers remain.
removeSelectOutcome_dropEarly(select) ==
    LET index == IndexOf(_select, select)
        c == subs[select].queryCache
        queryCacheIndex == IndexOf(caches[c].selects, select)
    IN  IF index # 0 /\ queryCacheIndex # 0
        THEN [ ret |-> TRUE, selects |-> Splice(_select, index),
               caches |-> [caches EXCEPT ![c].selects = Splice(@, queryCacheIndex)],
               registry |-> [k \in DOMAIN _queryCache \ {caches[c].queryCacheKey}
                                |-> _queryCache[k]] ]
        ELSE [ ret |-> FALSE, selects |-> _select, caches |-> caches,
               registry |-> _queryCache ]

\* A mutant of _removeSelect: the membership test on self._select is missing,
\* the cache's key is deleted whenever the cache has no subscriber left.
removeSelectOutcome_noGuard(select) ==
    LET index == IndexOf(_select, select)
        c == subs[select].queryCache
        queryCacheIndex == IndexOf(caches[c].selects, select)
        left == IF queryCacheIndex # 0 THEN Splice(caches[c].selects, queryCacheIndex)
                ELSE caches[c].selects
    IN  [ ret |-> index # 0,
          selects |-> IF index # 0 THEN Splice(_select, index) ELSE _select,
          caches |-> [caches EXCEPT ![c].selects = left],
          registry |-> IF Len(left) = 0
                       THEN [k \in DOMAIN _queryCache \ {caches[c].queryCacheKey}
                                |-> _queryCache[k]]
                       ELSE _queryCache ]

\* LiveMysql.prototype._removeSelect, lines 193-215
removeSelectOutcome(select) ==
    LET index == IndexOf(_select, select)
        c == subs[select].queryCache
        queryCacheIndex == IndexOf(caches[c].selects, select)
        left == Splice(caches[c].selects, queryCacheIndex)
    IN  IF index # 0
        THEN [ ret |-> TRUE,
               selects |-> Splice(_select, index),
               caches |-> IF queryCacheIndex # 0
                          THEN [caches EXCEPT ![c].selects = left] ELSE caches,
               registry |-> IF queryCacheIndex # 0 /\ Len(left) = 0
                            THEN [k \in DOMAIN _queryCache \ {caches[c].queryCacheKey}
                                     |-> _queryCache[k]]
                            ELSE _queryCache ]
        ELSE [ ret |-> FALSE, selects |-> _select, caches |-> caches,
               registry |-> _queryCache ]

\* LiveMysqlSelect.prototype.stop: hands the subscription to _removeSelect
Stop(select) ==
    LET out == removeSelectOutcome(select)
    IN  /\ select \in DOMAIN subs
        /\ _select' = out.selects
        /\ caches' = out.caches
        /\ _queryCache' = out.registry
        /\ lastCall' = [Call("stop") EXCEPT !.id = select, !.ret = out.ret]
        /\ UNCHANGED << settings, includeSchema, _schemaCache, subs,
                        pendingInitial, inflight, evCount >>
        /\ UNCHANGED initVars
        /\ UNCHANGED endVars
    /\ UNCHANGED evalVars

\* ------------------------------------------------ pause(), resume(), end()
\* the caches of the registry
Registered == Range(_queryCache)

\* the engine is paused: the settings object carries the empty interest-set
Paused == includeSchema = "empty"

\* LiveMysql.prototype.pause, lines 217-221; zongji.set throws on a null zongji
Pause ==
    /\ includeSchema' = "empty"
    /\ lastCall' = [Call("pause") EXCEPT !.threw = zongji = "null"]
    /\ UNCHANGED << settings, _schemaCache, _select, _queryCache, caches, subs,
                    pendingInitial, inflight, evCount >>
    /\ UNCHANGED initVars
    /\ UNCHANGED endVars
    /\ UNCHANGED evalVars

\* LiveMysql.prototype.resume, lines 223-232: every cache of the registry is
\* invalidated, unless zongji.set threw before
Resume ==
    /\ includeSchema' = "schemaCache"
    /\ caches' = IF zongji = "null" THEN caches
                 ELSE [c \in DOMAIN caches |->
                          IF c \in Registered THEN invalidate(caches[c])
                          ELSE caches[c]]
    /\ lastCall' = [Call("resume") EXCEPT
                        !.threw = zongji = "null",
                        !.targets = IF zongji = "null" THEN {} ELSE Registered]
    /\ UNCHANGED << settings, _schemaCache, _select, _queryCache, subs,
                    pendingInitial, inflight, evCount >>
    /\ UNCHANGED initVars
    /\ UNCHANGED endVars
    /\ UNCHANGED evalVars

\* LiveMysql.prototype.end, lines 234-238: self.zongji.stop() throws a
\* TypeError while self.zongji is null, before endDbOrPool is reached
endOutcome ==
    IF zongji = "null"
    THEN [ threw |-> "TypeError", stops |-> zongjiStops, ends |-> dbEnds ]
    ELSE [ threw |-> "", stops |-> zongjiStops + 1, ends |-> dbEnds + 1 ]

End ==
    /\ endCalls < MaxEnds
    /\ endCalls' = endCalls + 1
    /\ zongjiStops' = endOutcome.stops
    /\ dbEnds' = endOutcome.ends
    /\ lastCall' = [Call("end") EXCEPT !.threw = endOutcome.threw # ""]
    /\ UNCHANGED settings
    /\ UNCHANGED engineVars
    /\ UNCHANGED initVars
    /\ UNCHANGED evalVars

\* ------------------------------------------------ backend initialization
PollDelays == {ZONGJI_POLL_DELAY, 2 * ZONGJI_POLL_DELAY}

\* A mutant of zongjiReady: the timer is armed again after the timeout error.
zongjiReadyOutcome_rearm(ready, elapsed) ==
    IF ready
    THEN [ emit |-> "ready", armed |-> FALSE ]
    ELSE IF elapsed > ZONGJI_INIT_TIMEOUT
    THEN [ emit |-> "timeout", armed |-> TRUE ]
    ELSE [ emit |-> "", armed |-> TRUE ]

\* zongjiReady(), lines 114-127, called when elapsed ms have passed since
\* zongjiInitTime: what it emits and whether it re-arms its timer
zongjiReadyOutcome(ready, elapsed) ==
    IF ready
    THEN [ emit |-> "ready", armed |-> FALSE ]
    ELSE IF elapsed > ZONGJI_INIT_TIMEOUT
    THEN [ emit |-> "timeout", armed |-> FALSE ]
    ELSE [ emit |-> "", armed |-> TRUE ]

Emit(what) ==
    IF what = "" THEN emitted ELSE [emitted EXCEPT ![what] = @ + 1]

\* initialConnect's callback without an error, lines 87-130: the backend is
\* created and started, and zongjiReady() runs for the first time
Connect ==
    /\ connected = "pending"
    /\ connected' = "ok"
    /\ zongji' = "created"
    /\ zongjiReady' = FALSE
    /\ pollElapsed' = 0
    /\ pollArmed' = zongjiReadyOutcome(FALSE, 0).armed
    /\ emitted' = Emit(zongjiReadyOutcome(FALSE, 0).emit)
    /\ lastCall' = Internal
    /\ UNCHANGED settings
    /\ UNCHANGED engineVars
    /\ UNCHANGED endVars
    /\ UNCHANGED evalVars

\* initialConnect's callback with an error, line 88
ConnectError ==
    /\ connected = "pending"
    /\ connected' = "error"
    /\ emitted' = Emit("error")
    /\ lastCall' = Internal
    /\ UNCHANGED << zongji, zongjiReady, pollArmed, pollElapsed, settings >>
    /\ UNCHANGED engineVars
    /\ UNCHANGED endVars
    /\ UNCHANGED evalVars

\* the backend finishes its own start-up: zongji.ready becomes true
ZongjiBecomesReady ==
    /\ zongji = "created"
    /\ ~zongjiReady
    /\ zongjiReady' = TRUE
    /\ lastCall' = Internal
    /\ UNCHANGED << connected, zongji, pollArmed, pollElapsed, emitted, settings >>
    /\ UNCHANGED engineVars
    /\ UNCHANGED endVars
    /\ UNCHANGED evalVars

\* the timer of setTimeout(zongjiReady, 40) fires, delay ms after it was armed
Poll(delay) ==
    /\ pollArmed
    /\ pollElapsed' = pollElapsed + delay
    /\ pollArmed' = zongjiReadyOutcome(zongjiReady, pollElapsed + delay).armed
    /\ emitted' = Emit(zongjiReadyOutcome(zongjiReady, pollElapsed + delay).emit)
    /\ lastCall' = Internal
    /\ UNCHANGED << connected, zongji, zongjiReady, settings >>
    /\ UNCHANGED engineVars
    /\ UNCHANGED endVars
    /\ UNCHANGED evalVars

\* ------------------------------------------------ binlog ingress
\* the interest-set the backend filters by: zongjiSettings.includeSchema is
\* either the _schemaCache object itself or the empty object of pause()
Published ==
    IF includeSchema = "schemaCache" THEN _schemaCache ELSE << >>

Includes(schema, db, table) ==
    db \in DOMAIN schema /\ IndexOf(schema[db], table) # 0

\* the backend reads a row event of a table of its interest-set from the log
BackendEmits(event) ==
    /\ zongji = "created" /\ zongjiStops = 0
    /\ evCount < MaxEvents
    /\ Includes(Published, event.schemaName, event.tableName)
    /\ inflight' = Append(inflight, event)
    /\ evCount' = evCount + 1
    /\ lastCall' = Internal
    /\ UNCHANGED << settings, includeSchema, _schemaCache, _select, _queryCache,
                    caches, subs, pendingInitial >>
    /\ UNCHANGED initVars
    /\ UNCHANGED endVars
    /\ UNCHANGED evalVars

\* a matching event was seen: the next re-evaluation to begin has to cover it
MarkDirty(cache) == [cache EXCEPT !.dirty = "event"]

\* A mutant of the handler: a cache with a re-evaluation in flight is skipped.
binlogOnCache_skipRunning(cache, event) ==
    IF /\ cache.running = 0
       /\ settings.checkConditionWhenQueued \/ ~cache.updateTimeout
       /\ matchRowEvent(cache, event)
    THEN invalidate(MarkDirty(cache))
    ELSE IF matchRowEvent(cache, event) THEN MarkDirty(cache) ELSE cache

\* the body of _.each(self._queryCache, ...) of the 'binlog' handler, lines 103-109
binlogOnCache(cache, event) ==
    IF /\ settings.checkConditionWhenQueued \/ ~cache.updateTimeout
       /\ matchRowEvent(cache, event)
    THEN invalidate(MarkDirty(cache))
    ELSE IF matchRowEvent(cache, event) THEN MarkDirty(cache) ELSE cache

\* the caches the handler calls invalidate() on for this event
Invalidated(event) ==
    { c \in Registered :
        /\ settings.checkConditionWhenQueued \/ ~caches[c].updateTimeout
        /\ matchRowEvent(caches[c], event) }

\* zongji.on('binlog'), lines 96-110: the oldest event in flight is handled
Binlog ==
    /\ inflight # << >>
    /\ inflight' = Tail(inflight)
    /\ LET event == Head(inflight)
       IN  IF event.name = "tablemap"
           THEN /\ caches' = caches
                /\ lastCall' = Call("binlog")
           ELSE /\ caches' = [c \in DOMAIN caches |->
                                 IF c \in Registered
                                 THEN binlogOnCache(caches[c], event)
                                 ELSE caches[c]]
                /\ lastCall' = [Call("binlog") EXCEPT
                                    !.targets = Invalidated(event)]
    /\ UNCHANGED << settings, includeSchema, _schemaCache, _select, _queryCache,
                    subs, pendingInitial, evCount >>
    /\ UNCHANGED initVars
    /\ UNCHANGED endVars
    /\ UNCHANGED evalVars

\* ------------------------------------------------ re-evaluation
\* the rate-limit timer of a SCHEDULED cache fires: update() begins
TimerFires(c) ==
    /\ c \in DOMAIN caches
    /\ caches[c].updateTimeout
    /\ caches' = [caches EXCEPT ![c] =
                     beginUpdate([@ EXCEPT !.updateTimeout = FALSE, !.elapsed = TRUE])]
    /\ lastCall' = Internal
    /\ UNCHANGED << settings, includeSchema, _schemaCache, _select, _queryCache,
                    subs, pendingInitial, inflight, evCount >>
    /\ UNCHANGED initVars
    /\ UNCHANGED endVars
    /\ UNCHANGED evalVars

\* minInterval ms have passed since the cache's lastUpdate
TimePasses(c) ==
    /\ c \in DOMAIN caches
    /\ ~Due(caches[c])
    /\ caches' = [caches EXCEPT ![c].elapsed = TRUE]
    /\ lastCall' = Internal
    /\ UNCHANGED << settings, includeSchema, _schemaCache, _select, _queryCache,
                    subs, pendingInitial, inflight, evCount >>
    /\ UNCHANGED initVars
    /\ UNCHANGED endVars
    /\ UNCHANGED evalVars

\* the results a re-evaluation can end with; the query fails on a closed
\* connection
Results == IF dbEnds > 0 THEN {"error"} ELSE {"changed", "nochange", "error"}

\* update() completes (design 4.4): RUNNING -> IDLE, or SCHEDULED when an
\* invalidate() was deferred; lastUpdate advances unless the query failed;
\* a change is delivered to the subscribers the cache has at that moment
completeUpdate(cache, result) ==
    LET done == [cache EXCEPT
                    !.running = @ - 1,
                    !.dirty = IF @ = "covered" THEN "clean" ELSE @,
                    !.elapsed = IF result = "error" THEN @ ELSE FALSE]
    IN  IF done.deferred /\ done.running = 0
        THEN [done EXCEPT !.deferred = FALSE, !.updateTimeout = TRUE]
        ELSE done

Complete(c, result) ==
    /\ c \in DOMAIN caches
    /\ caches[c].running > 0
    /\ result \in Results
    /\ caches' = [caches EXCEPT ![c] = completeUpdate(@, result)]
    /\ lastCall' = [Call("complete") EXCEPT
                        !.id = c, !.result = result,
                        !.targets = IF result = "nochange" THEN {}
                                    ELSE Range(caches[c].selects)]
    /\ UNCHANGED << settings, includeSchema, _schemaCache, _select, _queryCache,
                    subs, pendingInitial, inflight, evCount >>
    /\ UNCHANGED initVars
    /\ UNCHANGED endVars
    /\ UNCHANGED evalVars

\* the next tick after a select() that joined an existing cache: the
\* subscription is handed the current result set, unless it was stopped
InitialDelivery(sub) ==
    /\ sub \in pendingInitial
    /\ pendingInitial' = pendingInitial \ {sub}
    /\ lastCall' = [Call("initial") EXCEPT
                        !.id = sub,
                        !.targets =
                            {sub} \cap Range(caches[subs[sub].queryCache].selects)]
    /\ UNCHANGED << settings, includeSchema, _schemaCache, _select, _queryCache,
                    caches, subs, inflight, evCount >>
    /\ UNCHANGED initVars
    /\ UNCHANGED endVars
    /\ UNCHANGED evalVars

\* ------------------------------------------------ rows (src/common.es6)
\* a row of the table: the columns id and v
Payload(id, v) == [id |-> id, v |-> v]
\* the rows the table can hold; the last one fails the WHERE clause
Payloads == { Payload(1, 1), Payload(2, 1), Payload(3, 2), Payload(4, 9) }

\* the parsed query: the select-list (a single * or the column v), the
\* values of v the WHERE clause accepts, ORDER BY v, LIMIT
Parsed(fields, order, hasLimit, limit) ==
    [ fields |-> fields, where |-> {1, 2}, order |-> order,
      limit |-> [present |-> hasLimit, value |-> limit] ]
ParsedInputs ==
    { Parsed("star", "none", FALSE, 0),
      Parsed("star", "ASC", TRUE, 2),
      Parsed("v", "DESC", FALSE, 0),
      Parsed("v", "none", TRUE, 2) }

\* a row of a result set: the selected columns (id 0: not selected) and the
\* synthetic fields; _index 0 stands for null, _added 0 for an absent marker
Row(id, v, hash, index, added) ==
    [ id |-> id, v |-> v, _hash |-> hash, _index |-> index, _added |-> added ]
NoRow == Row(0, 0, << 0, 0 >>, 0, 0)

\* lines 205-221: the columns the query selects
Project(row, parsed) ==
    IF parsed.fields = "star" THEN Payload(row.id, row.v) ELSE Payload(0, row.v)

\* line 223, md5.digest_s(JSON.stringify(cleanRow)), and line 298,
\* MD5(CAST(ROW_TO_JSON(res.*) AS TEXT)): one value per content of the
\* selected columns
Hash(cleanRow) == << cleanRow.id, cleanRow.v >>

\* the hashes of a result set in order, lines 192 and 290
Hashes(rows) == [i \in 1..Len(rows) |-> rows[i]._hash]

\* what a client compares a result set by: hashes in order and _index values
View(rows) == [i \in 1..Len(rows) |-> << rows[i]._hash, rows[i]._index >>]

\* the rows of a result set are numbered 1..N in order
Numbered(rows) == \A i \in 1..Len(rows) : rows[i]._index = i

\* how often a hash occurs among the first n entries of a list of hashes
Count(hashes, h, n) == Cardinality({ i \in 1..n : i <= Len(hashes) /\ hashes[i] = h })

\* the members of a set of numbers in ascending order
RECURSIVE Ascending(_)
Ascending(S) ==
    IF S = {} THEN << >>
    ELSE LET m == CHOOSE x \in S : \A y \in S : x <= y
         IN  << m >> \o Ascending(S \ {m})

\* ------------------------------------------------ Differ (design 4.1)
\* a diff: four lists; a null list of the code is the empty list here
Diff(removed, moved, copied, added) ==
    [ removed |-> removed, moved |-> moved, copied |-> copied, added |-> added ]

\* "no change": all four lists are empty
NoChange(diff) ==
    /\ diff.removed = << >> /\ diff.moved = << >>
    /\ diff.copied = << >> /\ diff.added = << >>

\* collectionDiff(oldHashes, newData)
\*   added: the rows whose hash does not appear in oldHashes;
\*   removed: the old positions whose hash is absent from the new rows;
\*   moved: a hash present in both whose first occurrences differ in position;
\*   copied: the occurrences of a hash beyond its number of old occurrences,
\*           each a copy of the first old occurrence
collectionDiff(oldHashes, newData) ==
    LET newHashes == Hashes(newData)
        old == Range(oldHashes)
        new == Range(newHashes)
        addedAt == { i \in 1..Len(newData) : newHashes[i] \notin old }
        removedAt == { i \in 1..Len(oldHashes) : oldHashes[i] \notin new }
        movedAt == { i \in 1..Len(newData) :
                       /\ newHashes[i] \in old
                       /\ IndexOf(newHashes, newHashes[i]) = i
                       /\ IndexOf(oldHashes, newHashes[i]) # i }
        copiedAt == { i \in 1..Len(newData) :
                        /\ newHashes[i] \in old
                        /\ Count(newHashes, newHashes[i], i)
                              > Count(oldHashes, newHashes[i], Len(oldHashes)) }
        removedIdx == Ascending(removedAt)
        movedIdx == Ascending(movedAt)
        copiedIdx == Ascending(copiedAt)
        addedIdx == Ascending(addedAt)
    IN  Diff([k \in 1..Len(removedIdx) |-> [_index |-> removedIdx[k]]],
             [k \in 1..Len(movedIdx) |->
                 [ old_index |-> IndexOf(oldHashes, newHashes[movedIdx[k]]),
                   new_index |-> movedIdx[k] ]],
             [k \in 1..Len(copiedIdx) |->
                 [ orig_index |-> IndexOf(oldHashes, newHashes[copiedIdx[k]]),
                   new_index |-> copiedIdx[k] ]],
             [k \in 1..Len(addedIdx) |-> newData[addedIdx[k]]])

\* ------------------------------------------------ applyDiff, lines 329-356
\* a slot of newResults: undefined, a row object of the input array (by its
\* position there), or another row object
Slot(kind, src, row) == [kind |-> kind, src |-> src, row |-> row]
Hole == Slot("undefined", 0, NoRow)

\* newResults[writes[k].at - 1] = writes[k].slot for k, k + 1, ...
RECURSIVE writeAll(_, _, _)
writeAll(slots, writes, k) ==
    IF k > Len(writes) THEN slots
    ELSE writeAll([slots EXCEPT ![writes[k].at] = writes[k].slot], writes, k + 1)

\* lines 346-348: movingRow = data[moved.old_index - 1] is a row object of
\* the input array, and movingRow._index = moved.new_index is written to it
RECURSIVE setMovedIndex(_, _, _)
setMovedIndex(data, moved, k) ==
    IF k > Len(moved) THEN data
    ELSE setMovedIndex(
             [data EXCEPT ![moved[k].old_index]._index = moved[k].new_index],
             moved, k + 1)

\* the largest position a diff writes to
Extent(data, diff) ==
    LET at == {Len(data)}
                \cup { diff.moved[k].new_index : k \in 1..Len(diff.moved) }
                \cup { diff.copied[k].new_index : k \in 1..Len(diff.copied) }
                \cup { diff.added[k]._index : k \in 1..Len(diff.added) }
    IN  CHOOSE m \in at : \A x \in at : x <= m

\* applyDiff(data, diff): the array it returns, and the input array as the
\* call leaves it
applyDiff(data, diff) ==
    LET start == [i \in 1..Extent(data, diff) |->
                     IF i <= Len(data) THEN Slot("data", i, NoRow) ELSE Hole]
        removed == writeAll(start,
                       [k \in 1..Len(diff.removed) |->
                           [at |-> diff.removed[k]._index, slot |-> Hole]], 1)
        \* Deallocate first to ensure no overwrites
        freed == writeAll(removed,
                     [k \in 1..Len(diff.moved) |->
                         [at |-> diff.moved[k].old_index, slot |-> Hole]], 1)
        copied == writeAll(freed,
                      [k \in 1..Len(diff.copied) |->
                          [ at |-> diff.copied[k].new_index,
                            slot |-> Slot("row", 0,
                                [data[diff.copied[k].orig_index] EXCEPT
                                    !._index = diff.copied[k].new_index]) ]], 1)
        moved == writeAll(copied,
                     [k \in 1..Len(diff.moved) |->
                         [ at |-> diff.moved[k].new_index,
                           slot |-> Slot("data", diff.moved[k].old_index, NoRow) ]], 1)
        added == writeAll(moved,
                     [k \in 1..Len(diff.added) |->
                         [ at |-> diff.added[k]._index,
                           slot |-> Slot("row", 0, diff.added[k]) ]], 1)
        after == setMovedIndex(data, diff.moved, 1)
        kept == Ascending({ i \in 1..Len(added) : added[i].kind # "undefined" })
    IN  [ result |-> [k \in 1..Len(kept) |->
                         IF added[kept[k]].kind = "data"
                         THEN after[added[kept[k]].src]
                         ELSE added[kept[k]].row],
          data |-> after ]

\* ------------------------------------------------ notifications
\* a NOTIFY payload, lines 107-123: op, and data or new_data and old_data
NoPayload == Payload(0, 0)
Insert(row) == [op |-> "INSERT", data |-> row, new_data |-> NoPayload, old_data |-> NoPayload]
Delete(row) == [op |-> "DELETE", data |-> row, new_data |-> NoPayload, old_data |-> NoPayload]
Update(old, new) == [op |-> "UPDATE", data |-> NoPayload, new_data |-> new, old_data |-> old]

\* pushItem, lines 363-369
pushItem(payload, key, index) ==
    [ id |-> payload[key].id, v |-> payload[key].v, _op |-> payload.op,
      _key |-> key, _index |-> index ]

\* flattenNotifications, lines 361-382: an UPDATE gives its new row, then
\* its old row
RECURSIVE flattenFrom(_, _)
flattenFrom(notifications, index) ==
    IF index > Len(notifications) THEN << >>
    ELSE ( IF notifications[index].op = "UPDATE"
           THEN << pushItem(notifications[index], "new_data", index - 1),
                   pushItem(notifications[index], "old_data", index - 1) >>
           ELSE << pushItem(notifications[index], "data", index - 1) >> )
         \o flattenFrom(notifications, index + 1)

flattenNotifications(notifications) == flattenFrom(notifications, 1)

\* matchRows(allRows, parsed, params), design 4.3, supplied-payload mode:
\* the rows whose column values satisfy the WHERE clause
matchRows(allRows, parsed) ==
    LET at == Ascending({ i \in 1..Len(allRows) : allRows[i].v \in parsed.where })
    IN  [k \in 1..Len(at) |-> allRows[at[k]]]

\* ------------------------------------------------ re-evaluation paths
\* what a path returns, and how it leaves the rows of currentData:
\*   kind: "error" (the promise is rejected), "null", or "result" with
\*   { diff, data }; requeried: performQuery was called
Outcome(kind, diff, data, input, requeried) ==
    [ kind |-> kind, diff |-> diff, data |-> data, input |-> input,
      requeried |-> requeried ]
EmptyDiff == Diff(<< >>, << >>, << >>, << >>)

\* what performQuery gives: an error, or the rows of res in order
QueryFails == [error |-> TRUE, res |-> << >>]
QueryGives(res) == [error |-> FALSE, res |-> res]

\* the rows of the statement of lines 292-312: a row whose hash is among the
\* old hashes comes without data2's columns, so with its _hash only; any
\* other row carries its columns, _added and its row number
resultRows(oldHashes, res) ==
    [i \in 1..Len(res) |->
        IF Hash(res[i]) \in Range(oldHashes)
        THEN Row(0, 0, Hash(res[i]), 0, 0)
        ELSE Row(res[i].id, res[i].v, Hash(res[i]), i, 1)]

\* A mutant of getResultSetDiff: a failed query is taken for "no change".
getResultSetDiff_swallow(currentData, query) ==
    LET oldHashes == Hashes(currentData)
        diff == collectionDiff(oldHashes, resultRows(oldHashes, query.res))
        newData == applyDiff(currentData, diff)
    IN  IF query.error \/ NoChange(diff)
        THEN Outcome("null", EmptyDiff, << >>, currentData, TRUE)
        ELSE Outcome("result", diff, newData.result, newData.data, TRUE)

\* getResultSetDiff(client, currentData, query, params), lines 289-321
getResultSetDiff(currentData, query) ==
    LET oldHashes == Hashes(currentData)
        diff == collectionDiff(oldHashes, resultRows(oldHashes, query.res))
        newData == applyDiff(currentData, diff)
    IN  IF query.error
        THEN Outcome("error", EmptyDiff, << >>, currentData, TRUE)
        ELSE IF NoChange(diff)
        THEN Outcome("null", EmptyDiff, << >>, currentData, TRUE)
        ELSE Outcome("result", diff, newData.result, newData.data, TRUE)

\* an element of newData: undefined, or a row; src is the position in
\* currentData of the row object it shares with currentData, 0 for a new one
Entry(live, src, row) == [live |-> live, src |-> src, row |-> row]

\* lines 196-242, the loop over the matched rows from the k-th on
RECURSIVE matchedLoop(_, _, _, _, _, _)
matchedLoop(matched, k, oldHashes, parsed, newData, hasDelete) ==
    IF k > Len(matched) THEN [newData |-> newData, hasDelete |-> hasDelete]
    ELSE LET matchRow == matched[k]
             cleanRow == Project(matchRow, parsed)
             hash == Hash(cleanRow)
             curIndex == IndexOf(oldHashes, hash)
             deletes == /\ curIndex # 0
                        /\ \/ matchRow._op = "DELETE"
                           \/ matchRow._op = "UPDATE" /\ matchRow._key = "old_data"
             inserts == \/ matchRow._op = "INSERT"
                        \/ matchRow._op = "UPDATE" /\ matchRow._key = "new_data"
             cleared == IF deletes
                        THEN [newData EXCEPT ![curIndex] = Entry(FALSE, 0, NoRow)]
                        ELSE newData
             pushed == IF inserts
                       THEN Append(cleared,
                                Entry(TRUE, 0, Row(cleanRow.id, cleanRow.v, hash, 0, 1)))
                       ELSE cleared
         IN  matchedLoop(matched, k + 1, oldHashes, parsed, pushed,
                         hasDelete \/ deletes)

\* _.sortByOrder(newData, sortProps, sortOrders) on the column v: stable
RECURSIVE sortByOrder(_, _)
sortByOrder(entries, asc) ==
    IF Len(entries) <= 1 THEN entries
    ELSE LET Before(a, b) == IF asc THEN a.row.v < b.row.v ELSE a.row.v > b.row.v
             first == CHOOSE i \in 1..Len(entries) :
                          /\ \A j \in 1..Len(entries) : ~Before(entries[j], entries[i])
                          /\ \A j \in 1..(i - 1) :
                                \E m \in 1..Len(entries) : Before(entries[m], entries[j])
         IN  << entries[first] >> \o sortByOrder(Splice(entries, first), asc)

\* lines 252-272: drop the deleted rows, ORDER BY, LIMIT, fix the indexes
arrange(newData, parsed) ==
    LET at == Ascending({ i \in 1..Len(newData) : newData[i].live })
        cleaned == [k \in 1..Len(at) |-> newData[at[k]]]
        sorted == IF parsed.order = "none" THEN cleaned
                  ELSE sortByOrder(cleaned, parsed.order = "ASC")
        sliced == IF parsed.limit.present /\ parsed.limit.value < Len(sorted)
                  THEN SubSeq(sorted, 1, parsed.limit.value)
                  ELSE sorted
    IN  [k \in 1..Len(sliced) |-> [sliced[k] EXCEPT !.row._index = k]]

\* the rows of currentData after the loop of lines 270-272 wrote _index to
\* the row objects newData shares with it
fixedInput(currentData, arranged) ==
    [i \in 1..Len(currentData) |->
        IF \E k \in 1..Len(arranged) : arranged[k].src = i
        THEN [currentData[i] EXCEPT
                 !._index = CHOOSE k \in 1..Len(arranged) : arranged[k].src = i]
        ELSE currentData[i]]

\* A mutant of getDiffFromSupplied: no fallback to the query after a delete
\* under a LIMIT.
getDiffFromSupplied_noRefusal(currentData, notifications, parsed, query) ==
    LET matched == matchRows(flattenNotifications(notifications), parsed)
        oldHashes == Hashes(currentData)
        loop == matchedLoop(matched, 1, oldHashes, parsed,
                    [i \in 1..Len(currentData) |-> Entry(TRUE, i, currentData[i])],
                    FALSE)
        arranged == arrange(loop.newData, parsed)
        newData == [k \in 1..Len(arranged) |-> arranged[k].row]
        diff == collectionDiff(oldHashes, newData)
    IN  IF Len(matched) = 0
        THEN Outcome("null", EmptyDiff, << >>, currentData, FALSE)
        ELSE IF NoChange(diff)
        THEN Outcome("null", EmptyDiff, << >>,
                     fixedInput(currentData, arranged), FALSE)
        ELSE Outcome("result", diff, newData,
                     fixedInput(currentData, arranged), FALSE)

\* getDiffFromSupplied(client, currentData, notifications, query, parsed,
\* params), lines 183-279
getDiffFromSupplied(currentData, notifications, parsed, query) ==
    LET matched == matchRows(flattenNotifications(notifications), parsed)
        oldHashes == Hashes(currentData)
        loop == matchedLoop(matched, 1, oldHashes, parsed,
                    [i \in 1..Len(currentData) |-> Entry(TRUE, i, currentData[i])],
                    FALSE)
        arranged == arrange(loop.newData, parsed)
        newData == [k \in 1..Len(arranged) |-> arranged[k].row]
        diff == collectionDiff(oldHashes, newData)
    IN  IF Len(matched) = 0
        THEN Outcome("null", EmptyDiff, << >>, currentData, FALSE)
        ELSE IF /\ loop.hasDelete
                /\ parsed.limit.present
                /\ parsed.limit.value = Len(currentData)
        \* Force full refresh
        THEN getResultSetDiff(currentData, query)
        ELSE IF NoChange(diff)
        THEN Outcome("null", EmptyDiff, << >>,
                     fixedInput(currentData, arranged), FALSE)
        ELSE Outcome("result", diff, newData,
                     fixedInput(currentData, arranged), FALSE)

\* ------------------------------------------------ a cache of row payloads
\* the batches of notifications a re-evaluation drains
Notifications ==
    { Insert(Payload(1, 1)), Insert(Payload(2, 1)), Insert(Payload(3, 2)),
      Insert(Payload(4, 9)),
      Delete(Payload(1, 1)), Delete(Payload(3, 2)),
      Update(Payload(1, 1), Payload(3, 2)),
      Update(Payload(3, 2), Payload(4, 9)),
      Update(Payload(4, 9), Payload(2, 1)) }
Batches == UNION { [1..n -> Notifications] : n \in 1..MaxBatch }

\* the rows the query can give: rows the WHERE clause accepts, in the order
\* of ORDER BY, no more than LIMIT
Selected(query) ==
    { Project(p, query) : p \in { q \in Payloads : q.v \in query.where } }
InOrder(res, query) ==
    \A i \in 1..(Len(res) - 1) :
        \/ query.order = "none"
        \/ query.order = "ASC" /\ res[i].v <= res[i + 1].v
        \/ query.order = "DESC" /\ res[i].v >= res[i + 1].v
ResultSets(query) ==
    { res \in UNION { [1..n -> Selected(query)] : n \in 0..MaxRows } :
        /\ InOrder(res, query)
        /\ query.limit.present => Len(res) <= query.limit.value }
Queries(query) == {QueryFails} \cup { QueryGives(res) : res \in ResultSets(query) }

\* the latest re-evaluation: the path taken, the batch drained, the result
\* set before it and what the path returned
Eval(path, batch, query, old, out) ==
    [ path |-> path, batch |-> batch, query |-> query, old |-> old,
      kind |-> out.kind, diff |-> out.diff, data |-> out.data,
      input |-> out.input, requeried |-> out.requeried ]
NoEval ==
    Eval("none", << >>, QueryFails, << >>,
         Outcome("null", EmptyDiff, << >>, << >>, FALSE))

\* how the rate-limit state machine sees the end of a re-evaluation
resultOf(out) ==
    IF out.kind = "error" THEN "error"
    ELSE IF out.kind = "null" THEN "nochange"
    ELSE "changed"

\* update() of the cache ends (design 4.4): a result replaces the result
\* set; after "no change" or an error the cache keeps the array it has,
\* which is the array the path was handed
finishUpdate(path, batch, query, out) ==
    /\ Len(out.data) <= MaxRows
    /\ resultSet' = IF out.kind = "result" THEN out.data ELSE out.input
    /\ pgCache' = completeUpdate(pgCache, resultOf(out))
    /\ lastEval' = Eval(path, batch, query, resultSet, out)
    /\ lastCall' = Internal
    /\ UNCHANGED parsedQuery

\* a re-evaluation through the notifications queued for the cache
EvalSupplied(notifications, query) ==
    /\ pgCache.running > 0
    /\ finishUpdate("supplied", notifications, query,
                    getDiffFromSupplied(resultSet, notifications, parsedQuery, query))
    /\ UNCHANGED << settings, engineVars, initVars, endVars >>

\* a re-evaluation through the query
EvalFull(query) ==
    /\ pgCache.running > 0
    /\ finishUpdate("full", << >>, query, getResultSetDiff(resultSet, query))
    /\ UNCHANGED << settings, engineVars, initVars, endVars >>

\* ------------------------------------------------ specifications
\* the state the constructor leaves, lines 73-85
Constructed ==
    /\ connected = "pending"
    /\ zongji = "null"
    /\ zongjiReady = FALSE
    /\ zongjiStops = 0
    /\ dbEnds = 0
    /\ endCalls = 0
    /\ pollArmed = FALSE
    /\ pollElapsed = 0
    /\ emitted = [ready |-> 0, timeout |-> 0, error |-> 0]
    /\ includeSchema = "schemaCache"
    /\ _schemaCache = << >>
    /\ _select = << >>
    /\ _queryCache = << >>
    /\ caches = << >>
    /\ subs = << >>
    /\ pendingInitial = {}
    /\ inflight = << >>
    /\ evCount = 0
    /\ lastCall = Call("new")

Init ==
    /\ settings \in SettingsInputs
    /\ Constructed
    /\ parsedQuery = Parsed("star", "none", FALSE, 0)
    /\ resultSet = << >>
    /\ pgCache = NewQueryCache(<< "", "", "" >>, Num(100))
    /\ lastEval = NoEval

\* the result sets a cache can hold when a re-evaluation begins: what the
\* query gave, numbered in order
Stored(res) ==
    [i \in 1..Len(res) |-> Row(res[i].id, res[i].v, Hash(res[i]), i, 1)]

\* a cache of row payloads whose re-evaluation is in flight, for each parsed
\* query and each result set the cache can hold
InitDiff ==
    /\ settings = [database |-> Str("db1"), checkConditionWhenQueued |-> FALSE]
    /\ Constructed
    /\ parsedQuery \in ParsedInputs
    /\ resultSet \in { Stored(res) : res \in ResultSets(parsedQuery) }
    /\ pgCache \in { [beginUpdate(NewQueryCache(<< "", "", "" >>, Num(100)))
                          EXCEPT !.deferred = d, !.elapsed = e] :
                      d \in BOOLEAN, e \in BOOLEAN }
    /\ lastEval = NoEval

SelectFrom(inputs) ==
    \E a \in inputs :
        Select(a.query, a.values, a.keySelector, a.triggers, a.minInterval)
SelectCall == SelectFrom(SelectInputs)
SelectEval == SelectFrom(EvalInputs)
StopCall == \E select \in SubIds : Stop(select)
EmitEvent == \E event \in RowEvents : BackendEmits(event)
Timer == \E c \in CacheIds : TimerFires(c)
Time == \E c \in CacheIds : TimePasses(c)
Completion == \E c \in CacheIds, result \in {"changed", "nochange", "error"} :
                  Complete(c, result)
Initial == \E sub \in SubIds : InitialDelivery(sub)
PollTimer == \E delay \in PollDelays : Poll(delay)

SelectChecked == SelectFrom(ValidationInputs)

\* select() under every kind of argument, and stop()
NextSelect ==
    \/ SelectChecked
    \/ StopCall

SpecSelect == Init /\ [][NextSelect]_vars

\* the registry: subscriptions come and go, the engine is paused and resumed
NextRegistry ==
    \/ Connect
    \/ SelectCall
    \/ StopCall
    \/ Pause
    \/ Resume

SpecRegistry == Init /\ [][NextRegistry]_vars

\* the ingress under pause() and resume(): one cache, its subscriptions stay
NextIngress ==
    \/ Connect
    \/ SelectEval
    \/ Pause
    \/ Resume
    \/ EmitEvent
    \/ Binlog
    \/ Timer
    \/ Time
    \/ Completion

SpecIngress == Init /\ [][NextIngress]_vars

\* the start of the backend and the end of the engine
NextInit ==
    \/ Connect
    \/ ConnectError
    \/ ZongjiBecomesReady
    \/ PollTimer
    \/ End

\* the poll's timer fires once armed
SpecInit == Init /\ [][NextInit]_vars /\ WF_vars(PollTimer)

\* re-evaluation and delivery while subscriptions come and go: timers fire
\* and re-evaluations end
NextDelivery ==
    \/ Connect
    \/ SelectEval
    \/ StopCall
    \/ EmitEvent
    \/ Binlog
    \/ Timer
    \/ Time
    \/ Completion
    \/ Initial

SpecDelivery ==
    /\ Init /\ [][NextDelivery]_vars
    /\ \A c \in CacheIds : WF_vars(TimerFires(c))
    /\ \A c \in CacheIds :
          WF_vars(\E result \in {"changed", "nochange", "error"} : Complete(c, result))

\* the query only matters to a batch that makes the path fall back to it
Supplied ==
    \E notifications \in IF pgCache.running > 0 THEN Batches ELSE {} :
        \E query \in IF getDiffFromSupplied(resultSet, notifications, parsedQuery,
                                            QueryFails).requeried
                      THEN Queries(parsedQuery) ELSE {QueryFails} :
            EvalSupplied(notifications, query)
Full ==
    \E query \in IF pgCache.running > 0 THEN Queries(parsedQuery) ELSE {} :
        EvalFull(query)

\* one re-evaluation of a cache of row payloads, through either path
NextDiff ==
    \/ Supplied
    \/ Full

SpecDiff == InitDiff /\ [][NextDiff]_vars

\* ------------------------------------------------ the registry
\* the subscriptions that are live: created and not stopped
Live == Range(_select)

\* C1: a cache is in the registry if and only if its selects list is not
\* empty, and the registry files every cache under the cache's own key; as
\* this holds in every state, a cache enters the registry with its first
\* subscription and leaves it with its last one, not earlier and not later.
CacheRegisteredIffSubscribed ==
    /\ \A c \in DOMAIN caches : c \in Registered <=> Len(caches[c].selects) > 0
    /\ \A k \in DOMAIN _queryCache : caches[_queryCache[k]].queryCacheKey = k
    /\ \A c \in DOMAIN caches : Range(caches[c].selects) \subseteq Live

\* C1 witness: a stop() just took the last subscription of a cache away, the
\* cache left the registry, and a cache with a subscriber is still in it
LastSubscriptionDetached ==
    /\ lastCall.op = "stop" /\ lastCall.ret
    /\ subs[lastCall.id].queryCache \notin Registered
    /\ Registered # {}

\* C2: a subscription made while an earlier one of the same identity is live
\* is bound to the same cache object; subscriptions of different identities
\* never share a cache; no cache is filed under two keys.
SameIdentitySameCache ==
    /\ \A s1 \in Live : \A s2 \in DOMAIN subs :
          s1 < s2 /\ subs[s1].identity = subs[s2].identity
              => subs[s1].queryCache = subs[s2].queryCache
    /\ \A s1, s2 \in DOMAIN subs :
          subs[s1].identity # subs[s2].identity
              => subs[s1].queryCache # subs[s2].queryCache
    /\ \A k1, k2 \in DOMAIN _queryCache :
          k1 # k2 => _queryCache[k1] # _queryCache[k2]

\* C2 witness: two live subscriptions share one cache
TwoSubscriptionsShareCache ==
    \E s1, s2 \in Live :
        s1 # s2 /\ subs[s1].queryCache = subs[s2].queryCache

\* the database a trigger resolves to, line 152
TriggerDatabase(trigger) ==
    IF Falsy(trigger.database) THEN settings.database ELSE trigger.database

\* the (database, table) pairs of an interest-set
Pairs(schema) ==
    UNION { { <<db, schema[db][i]>> : i \in 1..Len(schema[db]) } : db \in DOMAIN schema }

\* the (database, table) pairs the triggers of the live subscriptions name
LiveTriggerPairs ==
    UNION { { <<TriggerDatabase(subs[s].triggers[i]).s, subs[s].triggers[i].table>> :
                i \in 1..Len(subs[s].triggers) } : s \in Live }

\* C3, as claimed, for the states a select() or a stop() that returned
\* normally leaves: while the engine is not paused the published interest-set
\* is exactly the set of pairs the live triggers name.
InterestSetIsLiveTriggers ==
    ~Paused /\ lastCall.op \in {"select", "stop"} /\ ~lastCall.threw
        => Pairs(Published) = LiveTriggerPairs

\* C4: a stop() of a subscription that is already stopped changes neither
\* the subscription list nor any cache's selects list nor the registry; the
\* first stop() takes the subscription out of the list and out of its cache.
StopIdempotent ==
    [][ \A s \in DOMAIN subs :
          lastCall'.op = "stop" /\ lastCall'.id = s =>
             IF s \in Live
             THEN /\ s \notin Range(_select')
                  /\ s \notin Range(caches'[subs[s].queryCache].selects)
                  /\ lastCall'.ret
             ELSE /\ _select' = _select
                  /\ _queryCache' = _queryCache
                  /\ \A c \in DOMAIN caches : caches'[c].selects = caches[c].selects
                  /\ ~lastCall'.ret ]_vars

\* C4 witness: a stopped subscription was stopped again after a later
\* select() had made a new cache under its identity
StoppedAgainAfterRecreation ==
    /\ lastCall.op = "stop" /\ ~lastCall.ret
    /\ subs[lastCall.id].identity \in DOMAIN _queryCache
    /\ _queryCache[subs[lastCall.id].identity] # subs[lastCall.id].queryCache

\* ------------------------------------------------ re-evaluation
\* the rate-limit state of a cache
State(cache) ==
    IF cache.running > 0 THEN "RUNNING"
    ELSE IF cache.updateTimeout THEN "SCHEDULED"
    ELSE "IDLE"

\* C5: a cache never has two re-evaluations in flight and never a timer
\* next to a running re-evaluation; an invalidate() from the ingress or from
\* resume() that meets a RUNNING cache leaves one re-evaluation in flight and
\* sets the deferred flag; the completion that finds the flag schedules one
\* follow-up.
OneReEvaluationInFlight ==
    /\ [](\A c \in DOMAIN caches :
            /\ caches[c].running <= 1
            /\ ~(caches[c].running > 0 /\ caches[c].updateTimeout)
            /\ caches[c].deferred => caches[c].running = 1)
    /\ [][ \A c \in DOMAIN caches :
            /\ ( /\ lastCall'.op \in {"binlog", "resume"}
                 /\ c \in lastCall'.targets
                 /\ State(caches[c]) = "RUNNING" )
               => caches'[c].running = 1 /\ caches'[c].deferred
            /\ ( /\ lastCall'.op = "complete" /\ lastCall'.id = c
                 /\ caches[c].deferred )
               => State(caches'[c]) = "SCHEDULED" /\ ~caches'[c].deferred ]_vars

\* C5 witness: the ingress invalidated a cache whose re-evaluation is running
InvalidatedWhileRunning ==
    /\ lastCall.op = "binlog"
    /\ \E c \in lastCall.targets : caches[c].running = 1 /\ caches[c].deferred

\* C6: a row event that matches a registered cache is followed by a
\* re-evaluation of that cache that begins after the event and completes,
\* in whatever rate-limit state the event finds the cache; an event that
\* finds the cache SCHEDULED leaves its timer and its re-evaluations as
\* they are.
MatchingEventNotLost ==
    /\ \A c \in CacheIds :
          (c \in DOMAIN caches /\ caches[c].dirty = "event")
              ~> (c \in DOMAIN caches /\ caches[c].dirty = "clean")
    /\ [][ \A c \in DOMAIN caches :
            lastCall'.op = "binlog" /\ State(caches[c]) = "SCHEDULED"
                => /\ State(caches'[c]) = "SCHEDULED"
                   /\ caches'[c].running = caches[c].running
                   /\ caches'[c].deferred = caches[c].deferred ]_vars

\* C6 witness: an event matched a SCHEDULED cache and the ingress did not
\* call invalidate() on it
EventWhileScheduledSkipped ==
    /\ lastCall.op = "binlog"
    /\ \E c \in Registered :
          /\ State(caches[c]) = "SCHEDULED"
          /\ caches[c].dirty = "event"
          /\ c \notin lastCall.targets

\* C7, as claimed: while the engine is paused the ingress invalidates no cache
NoInvalidateWhilePaused ==
    ~(Paused /\ lastCall.op = "binlog" /\ lastCall.targets # {})

\* C8: an update or an error is delivered only to live subscriptions, so
\* never to a stopped one; a change is delivered to every live subscription
\* of the cache; the cache of a live subscription is in the registry.
StoppedGetsNoDelivery ==
    /\ lastCall.op \in {"complete", "initial"} => lastCall.targets \subseteq Live
    /\ lastCall.op = "complete" /\ lastCall.result = "changed"
          => lastCall.targets = { s \in Live : subs[s].queryCache = lastCall.id }
    /\ \A s \in Live : subs[s].queryCache \in Registered

\* C8 witness: a re-evaluation delivered its change to a live subscription
\* of a cache that another, stopped subscription had shared
DeliveredToTheOther ==
    /\ lastCall.op = "complete" /\ lastCall.result = "changed"
    /\ lastCall.targets # {}
    /\ \E s \in DOMAIN subs : s \notin Live /\ subs[s].queryCache = lastCall.id

\* ------------------------------------------------ start and end
\* C9: from the start of the backend on, the engine emits 'ready' or the
\* timeout error, and only one of them, once; the poll is not armed after
\* either, and it gives up within the timeout and one late timer.
InitializationBounded ==
    /\ [](emitted.ready + emitted.timeout <= 1)
    /\ [](emitted.ready + emitted.timeout = 1 => ~pollArmed)
    /\ [](pollElapsed <= ZONGJI_INIT_TIMEOUT + 2 * ZONGJI_POLL_DELAY)
    /\ (connected = "ok") ~> (emitted.ready + emitted.timeout = 1)

\* C9 witness: the timeout error was emitted, the backend became ready
\* afterwards, and no 'ready' was emitted
ReadyAfterTimeout ==
    emitted.timeout = 1 /\ zongjiReady /\ emitted.ready = 0

\* C10, as claimed: end() raises no error, and however often it is called the
\* backend is stopped once and the connection closed once
EndIdempotent ==
    /\ zongjiStops <= 1
    /\ dbEnds <= 1
    /\ lastCall.op = "end" => ~lastCall.threw

\* C11, as claimed: once an end() has returned, the readiness poll emits
\* neither 'ready' nor the timeout error, the ingress invalidates no cache,
\* and a re-evaluation that completes reports an error
EndIsTerminal ==
    [][ zongjiStops > 0 =>
          /\ emitted'.ready = emitted.ready
          /\ emitted'.timeout = emitted.timeout
          /\ lastCall'.op = "binlog" => lastCall'.targets = {}
          /\ lastCall'.op = "complete" => lastCall'.result = "error" ]_vars


\* ------------------------------------------------ diffs
\* the client's mirror after it replayed the diff of the latest re-evaluation
Replayed == applyDiff(lastEval.old, lastEval.diff).result

\* C12, as claimed: whenever a re-evaluation gives a result, replaying its
\* diff on the prior result set gives the engine's result set, hash by hash
\* in order and with the same _index values; after a query, that is the
\* rows the query gave, numbered in order
ReplayGivesResultSet ==
    lastEval.kind = "result" =>
        /\ View(Replayed) = View(lastEval.data)
        /\ lastEval.requeried =>
              View(Replayed) = View(Stored(lastEval.query.res))


\* C13, as claimed: applyDiff leaves its input as it was: after the diff of a
\* re-evaluation was applied to the prior result set, that sequence and
\* every row of it, _index included, are what they were before the call
ApplyDiffLeavesInput ==
    lastEval.kind = "result" =>
        applyDiff(lastEval.old, lastEval.diff).data = lastEval.old


\* ------------------------------------------------ the arguments of select()
\* the input-validation rule of the design, section 6
ValidArguments(a) ==
    /\ a.query.kind = "string" /\ a.query.s # ""
    /\ a.values.kind \in {"object", "undefined", "null"}
    /\ a.keySelector.kind = "function"
    /\ a.triggers.isArray /\ Len(a.triggers.items) > 0
    /\ \A i \in 1..Len(a.triggers.items) :
          TriggerDatabase(a.triggers.items[i]).kind # "undefined"
    /\ \/ a.minInterval.kind = "undefined"
       \/ a.minInterval.kind = "number" /\ a.minInterval.n >= 0

\* C14, as claimed: a select() throws exactly when its arguments break the
\* validation rule, so every call with valid arguments returns a subscription
SelectThrowsIffInvalid ==
    lastCall.op = "select" => (lastCall.threw <=> ~ValidArguments(lastCall.args))


\* C20, as claimed: a select() that throws leaves the registry, the
\* subscription list and the schema interest-set as they were before the call
FailedSelectChangesNothing ==
    [][ lastCall'.op = "select" /\ lastCall'.threw =>
          /\ _queryCache' = _queryCache
          /\ _select' = _select
          /\ _schemaCache' = _schemaCache ]_vars

ResultSetNumbered == Numbered(resultSet)

\* the batch of the latest re-evaluation holds a deletion: a DELETE row or
\* the old row of an UPDATE that satisfies the WHERE clause and whose hash
\* is in the old result set (design 4.7, step 5)
DeletionOccurred ==
    \E i \in 1..Len(lastEval.batch) :
        LET n == lastEval.batch[i]
            row == IF n.op = "DELETE" THEN n.data ELSE n.old_data
        IN  /\ n.op \in {"DELETE", "UPDATE"}
            /\ row.v \in parsedQuery.where
            /\ \E k \in 1..Len(lastEval.old) :
                   lastEval.old[k]._hash = Hash(Project(row, parsedQuery))

\* C17: the incremental path issues the query exactly when its batch holds
\* a deletion and the parsed query has a LIMIT equal to the size of the old
\* result set, and what it returns then is what the full path returns.
RefusalToGuess ==
    lastEval.path = "supplied" =>
        /\ lastEval.requeried <=>
               /\ DeletionOccurred
               /\ parsedQuery.limit.present
               /\ parsedQuery.limit.value = Len(lastEval.old)
        /\ lastEval.requeried =>
               LET full == getResultSetDiff(lastEval.old, lastEval.query)
               IN  /\ lastEval.kind = full.kind
                   /\ lastEval.diff = full.diff
                   /\ lastEval.data = full.data

\* a batch with a deletion under LIMIT 2 on two rows fell back to the query,
\* which gave a changed result set
FellBackToQuery ==
    /\ lastEval.path = "supplied"
    /\ lastEval.requeried
    /\ DeletionOccurred
    /\ lastEval.kind = "result"

RECURSIVE applyOneByOne(_, _, _, _)
applyOneByOne(rows, batch, k, parsed) ==
    IF k > Len(batch) THEN rows
    ELSE LET n == batch[k]
             gone == Project(IF n.op = "DELETE" THEN n.data ELSE n.old_data, parsed)
             come == Project(IF n.op = "INSERT" THEN n.data ELSE n.new_data, parsed)
             at == IndexOf([i \in 1..Len(rows) |-> rows[i].row._hash], Hash(gone))
             deleted == IF /\ n.op \in {"DELETE", "UPDATE"}
                           /\ gone.v \in parsed.where
                           /\ at # 0
                        THEN Splice(rows, at)
                        ELSE rows
             inserted == IF n.op \in {"INSERT", "UPDATE"} /\ come.v \in parsed.where
                         THEN Append(deleted,
                                  Entry(TRUE, 0, Row(come.id, come.v, Hash(come), 0, 1)))
                         ELSE deleted
         IN  applyOneByOne(inserted, batch, k + 1, parsed)

\* the batch of the latest re-evaluation applied one at a time to the old
\* result set, then ORDER BY and LIMIT
OneAtATime ==
    arrange(applyOneByOne([i \in 1..Len(lastEval.old) |->
                              Entry(TRUE, i, lastEval.old[i])],
                          lastEval.batch, 1, parsedQuery),
            parsedQuery)

\* C19: when the incremental path does not fall back, the result set it
\* returns holds the rows that applying the notifications of the batch one
\* at a time to the old result set, then ORDER BY and LIMIT, gives.
BatchEqualsOneAtATime ==
    ( /\ lastEval.path = "supplied"
      /\ ~lastEval.requeried
      /\ lastEval.kind = "result" ) =>
        Hashes(lastEval.data) = [k \in 1..Len(OneAtATime) |-> OneAtATime[k].row._hash]

====
